---------------------------- MODULE Spec2Model ----------------------------
(***************************************************************************)
(* A model of the AST node layer of rust-code-analysis: src/node.rs (Node, *)
(* Cursor, the Search trait implementation) and src/asttools.rs (the free  *)
(* functions and the macro forms of the ancestor queries).                 *)
(*                                                                         *)
(* A syntax tree is a finite ordered tree.  Its nodes are 1..n, node 1 is  *)
(* the root, parent[c] is the parent of c (None for the root) and the      *)
(* children of a node stand in source order by increasing number.  The     *)
(* tree is read-only once built, so parent, kind and else_if never change. *)
(***************************************************************************)
EXTENDS Integers, Sequences, FiniteSets, TLC

\* Largest number of nodes of a tree handed to the downward operations.
MaxNodes == 4
\* Largest number of proper ancestors of the node handed to the upward ones.
MaxDepth == 5
\* Longest token_list handed to traverse_children.
MaxTokens == 2
\* Most intermediate patterns handed to the has_ancestors! macro.
MaxPatterns == 2

\* Option::None for a node; real nodes are positive.
None == 0

\* The kind ids of the grammar.  Two predicates over kind ids, PredA and
\* PredB, split them into the four classes a pair of predicates can tell
\* apart: only PredA (1), both (2), only PredB (3), neither (4).
Kinds == {1, 2, 3, 4}
PredA == {1, 2}
PredB == {2, 3}
Preds == {PredA, PredB}

VARIABLES
    parent,     \* tree shape: node -> its parent, None for the root
    kind,       \* node -> kind id (Node::kind_id)
    else_if,    \* the nodes the language's Checker classifies as else-if
    op,         \* the operation this behaviour runs
    self,       \* the receiver node
    args,       \* the arguments of the call (a record, by parameter name)
    stack,      \* the explicit stack of the depth-first traversals
    results,    \* all_occurrences: the matches collected so far
    visited,    \* act_on_node: the nodes the visitor was called on, in order
    node,       \* the walking position of the loops over ancestors/children
    count,      \* count_specific_ancestors: the counter
    tokens,     \* traverse_children: the predicates not yet consumed
    pc,         \* "call" before the call, "loop" inside it, "done" after
    ret         \* the value returned, once pc = "done"

vars == <<parent, kind, else_if, op, self, args, stack, results, visited,
          node, count, tokens, pc, ret>>

tree == <<parent, kind, else_if>>

Nodes == DOMAIN parent

-----------------------------------------------------------------------------
(* Sequences *)

Reverse(s) == [i \in 1..Len(s) |-> s[Len(s) + 1 - i]]

Last(s) == s[Len(s)]

Pop(s) == SubSeq(s, 1, Len(s) - 1)

Min(S) == CHOOSE x \in S : \A y \in S : x <= y

-----------------------------------------------------------------------------
(* The tree-sitter node and cursor, as node.rs wraps them *)

\* Node::parent
Parent(n) == parent[n]

\* Node::kind_id
kind_id(n) == kind[n]

\* Node::child_count
child_count(n) == Cardinality({c \in Nodes : parent[c] = n})

\* Cursor::goto_first_child from a cursor at n: the leftmost child, None
\* (the call returns false and the cursor stays) when n has no child.
goto_first_child(n) ==
    LET cs == {c \in Nodes : parent[c] = n}
    IN  IF cs = {} THEN None ELSE Min(cs)

\* Cursor::goto_next_sibling from a cursor at c: the next child of c's
\* parent, None (the call returns false) when c is the last one.
goto_next_sibling(c) ==
    LET ss == {s \in Nodes : parent[s] = parent[c] /\ s > c}
    IN  IF ss = {} THEN None ELSE Min(ss)

\* The loop `loop { children.push(cursor.node()); if !goto_next_sibling
\* { break } }`, entered with the cursor at c and `children` empty: the
\* node under the cursor, then what the loop pushes after moving on.
collect_siblings(c) ==
    LET pushed[x \in Nodes] ==
            IF goto_next_sibling(x) = None THEN <<x>>
            ELSE <<x>> \o pushed[goto_next_sibling(x)]
    IN  pushed[c]

\* Node::children: a cursor on the receiver, goto_first_child, then
\* child_count times (cursor.node(), goto_next_sibling).
children(n) ==
    LET at[i \in 1..child_count(n)] ==
            IF i = 1 THEN goto_first_child(n) ELSE goto_next_sibling(at[i - 1])
    IN  [i \in 1..child_count(n) |-> at[i]]

\* T::Checker::is_else_if
is_else_if(n) == n \in else_if

\* A faulty variant of the loop body: the counted test before the stop test.
count_specific_ancestors_check_first(st, check, stop) ==
    LET p == Parent(st.node)
    IN  IF p = None THEN [st EXCEPT !.done = TRUE]
        ELSE IF kind_id(p) \in check
        THEN [node  |-> p,
              count |-> IF ~is_else_if(p) THEN st.count + 1 ELSE st.count,
              done  |-> FALSE]
        ELSE IF kind_id(p) \in stop THEN [st EXCEPT !.done = TRUE]
        ELSE [st EXCEPT !.node = p]

\* A faulty variant of the loop body: the Checker is not asked.
count_specific_ancestors_else_if_counted(st, check, stop) ==
    LET p == Parent(st.node)
    IN  IF p = None THEN [st EXCEPT !.done = TRUE]
        ELSE IF kind_id(p) \in stop THEN [st EXCEPT !.done = TRUE]
        ELSE [node  |-> p,
              count |-> IF kind_id(p) \in check THEN st.count + 1
                        ELSE st.count,
              done  |-> FALSE]

\* One evaluation of `while let Some(parent) = node.parent()` and of the
\* loop body of Node::count_specific_ancestors (node.rs); done when the
\* loop is left, by the failed `while let` or by `break`.
count_specific_ancestors_iter(st, check, stop) ==
    LET p == Parent(st.node)
    IN  IF p = None THEN [st EXCEPT !.done = TRUE]
        ELSE IF kind_id(p) \in stop THEN [st EXCEPT !.done = TRUE]
        ELSE [node  |-> p,
              count |-> IF kind_id(p) \in check /\ ~is_else_if(p)
                        THEN st.count + 1 ELSE st.count,
              done  |-> FALSE]

RECURSIVE count_specific_ancestors_loop(_, _, _)
count_specific_ancestors_loop(st, check, stop) ==
    IF st.done THEN st.count
    ELSE count_specific_ancestors_loop(
             count_specific_ancestors_iter(st, check, stop), check, stop)

\* Node::count_specific_ancestors, run to its return.
count_specific_ancestors(n, check, stop) ==
    count_specific_ancestors_loop(
        [node |-> n, count |-> 0, done |-> FALSE], check, stop)

\* The same for the count_specific_ancestors! macro (asttools.rs): the
\* `match` tries the arm of $typs before the arm of $stops, and only the
\* arm of $stops has a `break`.
count_specific_ancestors_macro_iter(st, typs, stops) ==
    LET p == Parent(st.node)
    IN  IF p = None THEN [st EXCEPT !.done = TRUE]
        ELSE IF kind_id(p) \in typs
        THEN [node  |-> p,
              count |-> IF ~is_else_if(p) THEN st.count + 1 ELSE st.count,
              done  |-> FALSE]
        ELSE IF kind_id(p) \in stops THEN [st EXCEPT !.done = TRUE]
        ELSE [st EXCEPT !.node = p]

\* Node::has_ancestors (node.rs): when the parent is missing or fails typ,
\* `node` stays the receiver and the second `if let` still runs.
has_ancestors(n, typ, typs) ==
    LET node1 == IF Parent(n) # None /\ kind_id(Parent(n)) \in typ
                 THEN Parent(n) ELSE n
    IN  Parent(node1) # None /\ kind_id(Parent(node1)) \in typs

\* The has_ancestors! macro (asttools.rs) with the intermediate patterns
\* typ (one or more) and the target patterns typs: a missing or mismatching
\* intermediate parent leaves the `loop` by `break`, with res still false.
has_ancestors_macro(n, typs, typ) ==
    LET at[i \in 0..Len(typ)] ==
            IF i = 0 THEN n
            ELSE IF at[i - 1] = None THEN None
            ELSE IF /\ Parent(at[i - 1]) # None
                    /\ kind_id(Parent(at[i - 1])) \in typ[i]
            THEN Parent(at[i - 1])
            ELSE None
        last == at[Len(typ)]
    IN  /\ last # None
        /\ Parent(last) # None
        /\ kind_id(Parent(last)) \in typs

\* Node::is_child: tree-sitter's Node::children(cursor) resets the cursor it
\* is given to the receiver and yields the receiver's children.
is_child(n, id) ==
    \E i \in DOMAIN children(n) : kind_id(children(n)[i]) = id

\* Node::has_sibling: `self.0.children(&mut parent.walk())` is called on
\* self.0, so it iterates the children of the receiver; of the parent only
\* the cursor is used, and children() resets it.
has_sibling(n, id) ==
    /\ Parent(n) # None
    /\ \E i \in DOMAIN children(n) : kind_id(children(n)[i]) = id

\* The inner loop of traverse_children, `for temp_node in node.children()`:
\* the first child whose kind id satisfies token, None when the loop ends.
first_matching_child(n, token) ==
    LET cs    == children(n)
        found == {i \in DOMAIN cs : kind_id(cs[i]) \in token}
    IN  IF found = {} THEN None ELSE cs[Min(found)]

\* A faulty variant of the iteration: any descendant may match, not only a
\* direct child.
node_traverse_children_deep(st) ==
    LET token == Head(st.tokens)
        below == {d \in Nodes : d # st.node /\ kind_id(d) \in token /\
                     \E a \in Nodes : parent[a] = st.node /\
                        (d = a \/ LET up[x \in Nodes] ==
                                         /\ parent[x] # None
                                         /\ (parent[x] = a \/ up[parent[x]])
                                   IN  up[d])}
    IN  IF below = {}
        THEN [node |-> None, tokens |-> <<>>]
        ELSE [node |-> Min(below), tokens |-> Tail(st.tokens)]

\* One iteration of the outer loop of Node::traverse_children (node.rs):
\* descend into the first matching child (`continue 'outer`), or
\* `return None`, shown as node = None.
node_traverse_children_iter(st) ==
    LET found == first_matching_child(st.node, Head(st.tokens))
    IN  IF found = None
        THEN [node |-> None, tokens |-> <<>>]
        ELSE [node |-> found, tokens |-> Tail(st.tokens)]

\* The same iteration of the free function traverse_children (asttools.rs).
traverse_children_iter(st) ==
    LET found == first_matching_child(st.node, Head(st.tokens))
    IN  IF found = None
        THEN [node |-> None, tokens |-> <<>>]
        ELSE [node |-> found, tokens |-> Tail(st.tokens)]

\* Node::start_byte.  tree-sitter lays the tokens (the leaves) out in
\* source order and starts an inner node where its first child starts.
\* Every token is taken one byte wide here, with no padding between tokens:
\* a leaf starts at the number of leaves before it.
start_byte(n) ==
    LET leaf(x) == goto_first_child(x) = None
        first_leaf[x \in Nodes] ==
            IF leaf(x) THEN x ELSE first_leaf[goto_first_child(x)]
        \* y comes before leaf x in the source: y is a leaf that is not x
        \* and, below their lowest common ancestor, sits in an earlier child
        up[x \in Nodes] == IF parent[x] = None THEN {x}
                           ELSE {x} \cup up[parent[x]]
        before(y, x) ==
            /\ leaf(y) /\ y # x
            /\ \E a \in up[y], b \in up[x] :
                  a # b /\ parent[a] = parent[b] /\ a < b
    IN  Cardinality({y \in Nodes : before(y, first_leaf[n])})

-----------------------------------------------------------------------------
(* impl Search for Node *)

\* cursor.reset(&node); if cursor.goto_first_child() { collect the children;
\* for child in children.drain(..).rev() { stack.push(child) } }
push_children(stk, n) ==
    LET first == goto_first_child(n)
    IN  IF first = None THEN stk
        ELSE stk \o Reverse(collect_siblings(first))

\* A faulty variant of the iteration: the children are pushed unreversed.
all_occurrences_norev(st, pred) ==
    LET n     == Last(st.stack)
        first == goto_first_child(n)
    IN  [stack   |-> IF first = None THEN Pop(st.stack)
                     ELSE Pop(st.stack) \o collect_siblings(first),
         results |-> IF kind_id(n) \in pred THEN Append(st.results, n)
                     ELSE st.results]

\* One iteration of all_occurrences' `while let Some(node) = stack.pop()`.
all_occurrences_iter(st, pred) ==
    LET n == Last(st.stack)
    IN  [stack   |-> push_children(Pop(st.stack), n),
         results |-> IF kind_id(n) \in pred THEN Append(st.results, n)
                     ELSE st.results]

RECURSIVE all_occurrences_loop(_, _)
all_occurrences_loop(st, pred) ==
    IF st.stack = <<>> THEN st.results
    ELSE all_occurrences_loop(all_occurrences_iter(st, pred), pred)

\* Search::all_occurrences, run to its return.
all_occurrences(n, pred) ==
    all_occurrences_loop([stack |-> <<n>>, results |-> <<>>], pred)

\* A faulty variant of the iteration: the children are pushed unreversed.
first_occurrence_norev(st, pred) ==
    LET n     == Last(st.stack)
        first == goto_first_child(n)
    IN  IF kind_id(n) \in pred
        THEN [stack |-> Pop(st.stack), found |-> n]
        ELSE [stack |-> IF first = None THEN Pop(st.stack)
                        ELSE Pop(st.stack) \o collect_siblings(first),
              found |-> None]

\* One iteration of first_occurrence's loop: `return Some(node)` on a match.
first_occurrence_iter(st, pred) ==
    LET n == Last(st.stack)
    IN  IF kind_id(n) \in pred
        THEN [stack |-> Pop(st.stack), found |-> n]
        ELSE [stack |-> push_children(Pop(st.stack), n), found |-> None]

\* A faulty variant of the iteration: only the last child is pushed.
act_on_node_lastchild(st) ==
    LET n     == Last(st.stack)
        first == goto_first_child(n)
    IN  [stack   |-> IF first = None THEN Pop(st.stack)
                     ELSE Append(Pop(st.stack),
                                 Last(collect_siblings(first))),
         visited |-> Append(st.visited, n)]

\* One iteration of act_on_node's loop: action(&node), then the children.
act_on_node_iter(st) ==
    LET n == Last(st.stack)
    IN  [stack   |-> push_children(Pop(st.stack), n),
         visited |-> Append(st.visited, n)]

-----------------------------------------------------------------------------
(* The trees and the initial states *)

\* The ordered trees of n nodes: every node but the root has a parent
\* numbered below it.
Trees(n) ==
    {f \in [1..n -> 0..(n - 1)] :
        /\ f[1] = None
        /\ \A c \in 2..n : f[c] # None /\ f[c] < c}

NoArgs == [none |-> TRUE]

Idle ==
    /\ stack = <<>>
    /\ results = <<>>
    /\ visited = <<>>
    /\ node = None
    /\ count = 0
    /\ tokens = <<>>
    /\ pc = "call"
    /\ ret = None

\* A tree of at most MaxNodes nodes, any receiver in it and any kind ids.
DownwardTree ==
    /\ \E n \in 1..MaxNodes :
          /\ parent \in Trees(n)
          /\ kind \in [1..n -> Kinds]
          /\ self \in 1..n
    /\ else_if = {}

\* A call of first_occurrence or of all_occurrences.
SearchInit ==
    /\ DownwardTree
    /\ op \in {"first_occurrence", "all_occurrences"}
    /\ args \in [pred : Preds]
    /\ Idle

\* A call of act_on_node with a visitor that records the node it is given.
\* act_on_node never reads a kind id, so two kinds stand for all.
ActInit ==
    /\ \E n \in 1..MaxNodes :
          /\ parent \in Trees(n)
          /\ kind \in [1..n -> {1, 4}]
          /\ self \in 1..n
    /\ else_if = {}
    /\ op = "act_on_node"
    /\ args = NoArgs
    /\ Idle

-----------------------------------------------------------------------------
(* The traversals, one loop iteration per step *)

\* stack.push(*self)
AllOccurrencesCall ==
    /\ pc = "call"
    /\ op = "all_occurrences"
    /\ stack' = <<self>>
    /\ pc' = "loop"
    /\ UNCHANGED <<tree, op, self, args, results, visited, node, count, tokens, ret>>

AllOccurrencesIter ==
    /\ pc = "loop"
    /\ op = "all_occurrences"
    /\ stack # <<>>
    /\ LET st == all_occurrences_iter(
                     [stack |-> stack, results |-> results], args.pred)
       IN  /\ stack' = st.stack
           /\ results' = st.results
    /\ UNCHANGED <<tree, op, self, args, visited, node, count, tokens, pc, ret>>

\* The stack is empty: `results` is returned.
AllOccurrencesReturn ==
    /\ pc = "loop"
    /\ op = "all_occurrences"
    /\ stack = <<>>
    /\ ret' = results
    /\ pc' = "done"
    /\ UNCHANGED <<tree, op, self, args, stack, results, visited, node, count,
                   tokens>>

FirstOccurrenceCall ==
    /\ pc = "call"
    /\ op = "first_occurrence"
    /\ stack' = <<self>>
    /\ pc' = "loop"
    /\ UNCHANGED <<tree, op, self, args, results, visited, node, count, tokens, ret>>

FirstOccurrenceIter ==
    /\ pc = "loop"
    /\ op = "first_occurrence"
    /\ stack # <<>>
    /\ LET st == first_occurrence_iter(
                     [stack |-> stack, found |-> None], args.pred)
       IN  /\ stack' = st.stack
           /\ IF st.found # None
              THEN ret' = st.found /\ pc' = "done"
              ELSE UNCHANGED <<ret, pc>>
    /\ UNCHANGED <<tree, op, self, args, results, visited, node, count,
                   tokens>>

\* The stack is empty and nothing matched: None is returned.
FirstOccurrenceReturn ==
    /\ pc = "loop"
    /\ op = "first_occurrence"
    /\ stack = <<>>
    /\ ret' = None
    /\ pc' = "done"
    /\ UNCHANGED <<tree, op, self, args, stack, results, visited, node, count,
                   tokens>>

ActOnNodeCall ==
    /\ pc = "call"
    /\ op = "act_on_node"
    /\ stack' = <<self>>
    /\ pc' = "loop"
    /\ UNCHANGED <<tree, op, self, args, results, visited, node, count, tokens, ret>>

ActOnNodeIter ==
    /\ pc = "loop"
    /\ op = "act_on_node"
    /\ stack # <<>>
    /\ LET st == act_on_node_iter([stack |-> stack, visited |-> visited])
       IN  /\ stack' = st.stack
           /\ visited' = st.visited
    /\ UNCHANGED <<tree, op, self, args, results, node, count, tokens, pc, ret>>

ActOnNodeReturn ==
    /\ pc = "loop"
    /\ op = "act_on_node"
    /\ stack = <<>>
    /\ pc' = "done"
    /\ UNCHANGED <<tree, op, self, args, stack, results, visited, node, count,
                   tokens, ret>>

SearchNext ==
    \/ AllOccurrencesCall
    \/ AllOccurrencesIter
    \/ AllOccurrencesReturn
    \/ FirstOccurrenceCall
    \/ FirstOccurrenceIter
    \/ FirstOccurrenceReturn

SearchSpec == SearchInit /\ [][SearchNext]_vars

ActNext ==
    \/ ActOnNodeCall
    \/ ActOnNodeIter
    \/ ActOnNodeReturn

\* act_on_node is ordinary sequential code: while it can take its next
\* step it takes it.
ActSpec == ActInit /\ [][ActNext]_vars /\ WF_vars(ActNext)

-----------------------------------------------------------------------------
(* The tests on the children: has_sibling, is_child *)

\* A call of has_sibling(id) or of is_child(id).
SiblingInit ==
    /\ DownwardTree
    /\ op \in {"has_sibling", "is_child"}
    /\ args \in [id : {1, 2}]
    /\ Idle

HasSibling ==
    /\ pc = "call"
    /\ op = "has_sibling"
    /\ ret' = has_sibling(self, args.id)
    /\ pc' = "done"
    /\ UNCHANGED <<tree, op, self, args, stack, results, visited, node, count,
                   tokens>>

IsChild ==
    /\ pc = "call"
    /\ op = "is_child"
    /\ ret' = is_child(self, args.id)
    /\ pc' = "done"
    /\ UNCHANGED <<tree, op, self, args, stack, results, visited, node, count,
                   tokens>>

SiblingNext == HasSibling \/ IsChild

SiblingSpec == SiblingInit /\ [][SiblingNext]_vars

-----------------------------------------------------------------------------
(* traverse_children, one predicate per step *)

\* The token lists of at most MaxTokens predicates.
TokenLists == UNION {[1..l -> Preds] : l \in 0..MaxTokens}

TraverseOps == {"Node::traverse_children", "traverse_children"}

\* A call of either traverse_children.  It only ever moves downward from
\* its starting node, so the starting node is the root of the tree given.
TraverseInit ==
    /\ \E n \in 1..MaxNodes :
          /\ parent \in Trees(n)
          /\ kind \in [1..n -> Kinds]
    /\ self = 1
    /\ else_if = {}
    /\ op \in TraverseOps
    /\ args \in [token_list : TokenLists]
    /\ Idle

\* let mut node = *self; and the iterator over token_list
TraverseCall ==
    /\ pc = "call"
    /\ op \in TraverseOps
    /\ node' = self
    /\ tokens' = args.token_list
    /\ pc' = "loop"
    /\ UNCHANGED <<tree, op, self, args, stack, results, visited, count, ret>>

TraverseStep(st) ==
    /\ IF st.node = None
       THEN ret' = None /\ pc' = "done" /\ UNCHANGED <<node, tokens>>
       ELSE node' = st.node /\ tokens' = st.tokens /\ UNCHANGED <<ret, pc>>
    /\ UNCHANGED <<tree, op, self, args, stack, results, visited, count>>

NodeTraverseChildrenIter ==
    /\ pc = "loop"
    /\ op = "Node::traverse_children"
    /\ tokens # <<>>
    /\ TraverseStep(node_traverse_children_iter(
                        [node |-> node, tokens |-> tokens]))

TraverseChildrenIter ==
    /\ pc = "loop"
    /\ op = "traverse_children"
    /\ tokens # <<>>
    /\ TraverseStep(traverse_children_iter([node |-> node, tokens |-> tokens]))

\* token_list is consumed: Some(node)
TraverseReturn ==
    /\ pc = "loop"
    /\ op \in TraverseOps
    /\ tokens = <<>>
    /\ ret' = node
    /\ pc' = "done"
    /\ UNCHANGED <<tree, op, self, args, stack, results, visited, node, count,
                   tokens>>

TraverseNext ==
    \/ TraverseCall
    \/ NodeTraverseChildrenIter
    \/ TraverseChildrenIter
    \/ TraverseReturn

TraverseSpec == TraverseInit /\ [][TraverseNext]_vars

-----------------------------------------------------------------------------
(* The ancestor queries *)

\* The upward walks only read parents: the tree given to them is the path
\* from the receiver to the root, the receiver with up to MaxDepth proper
\* ancestors, any kind ids on it.
AncestorPath ==
    \E d \in 0..MaxDepth :
        /\ parent = [c \in 1..(d + 1) |-> c - 1]
        /\ kind \in [1..(d + 1) -> Kinds]
        /\ self = d + 1

\* A call of Node::has_ancestors or of the has_ancestors! macro.
HasAncestorsInit ==
    /\ AncestorPath
    /\ else_if = {}
    /\ \/ /\ op = "Node::has_ancestors"
          /\ args \in [typ : Preds, typs : Preds]
       \/ /\ op = "has_ancestors!"
          /\ args \in [typ : UNION {[1..l -> Preds] : l \in 1..MaxPatterns},
                       typs : Preds]
    /\ Idle

HasAncestors ==
    /\ pc = "call"
    /\ op = "Node::has_ancestors"
    /\ ret' = has_ancestors(self, args.typ, args.typs)
    /\ pc' = "done"
    /\ UNCHANGED <<tree, op, self, args, stack, results, visited, node, count,
                   tokens>>

HasAncestorsMacro ==
    /\ pc = "call"
    /\ op = "has_ancestors!"
    /\ ret' = has_ancestors_macro(self, args.typs, args.typ)
    /\ pc' = "done"
    /\ UNCHANGED <<tree, op, self, args, stack, results, visited, node, count,
                   tokens>>

HasAncestorsNext == HasAncestors \/ HasAncestorsMacro

HasAncestorsSpec == HasAncestorsInit /\ [][HasAncestorsNext]_vars

\* The path of a counting walk: the Checker classifies any of the proper
\* ancestors as else-if; the counted set is PredA and the stop set PredB,
\* so that an ancestor is in any of: the counted set only, both, the stop
\* set only, neither.  The walks start at the parent and never read the
\* receiver's own kind; the receiver is given the kind that is in both
\* sets, so that a walk that did test it would stop or count at once.
CountingPath ==
    /\ AncestorPath
    /\ kind[self] = 2
    /\ else_if \in SUBSET (Nodes \ {self})
    /\ Idle

\* A call of Node::count_specific_ancestors.
CountInit ==
    /\ CountingPath
    /\ op = "Node::count_specific_ancestors"
    /\ args = [check |-> PredA, stop |-> PredB]

\* let mut count = 0; let mut node = *self;
CountCall ==
    /\ pc = "call"
    /\ op = "Node::count_specific_ancestors"
    /\ count' = 0
    /\ node' = self
    /\ pc' = "loop"
    /\ UNCHANGED <<tree, op, self, args, stack, results, visited, tokens, ret>>

\* One pass of the loop; `count` is returned when the loop is left.
CountStep(st) ==
    /\ IF st.done
       THEN ret' = st.count /\ pc' = "done" /\ UNCHANGED <<node, count>>
       ELSE node' = st.node /\ count' = st.count /\ UNCHANGED <<ret, pc>>
    /\ UNCHANGED <<tree, op, self, args, stack, results, visited, tokens>>

CountIter ==
    /\ pc = "loop"
    /\ op = "Node::count_specific_ancestors"
    /\ CountStep(count_specific_ancestors_iter(
                     [node |-> node, count |-> count, done |-> FALSE],
                     args.check, args.stop))

CountNext == CountCall \/ CountIter

CountSpec == CountInit /\ [][CountNext]_vars

\* A call of the count_specific_ancestors! macro.
CountMacroInit ==
    /\ CountingPath
    /\ op = "count_specific_ancestors!"
    /\ args = [typs |-> PredA, stops |-> PredB]

CountMacroCall ==
    /\ pc = "call"
    /\ op = "count_specific_ancestors!"
    /\ count' = 0
    /\ node' = self
    /\ pc' = "loop"
    /\ UNCHANGED <<tree, op, self, args, stack, results, visited, tokens, ret>>

CountMacroIter ==
    /\ pc = "loop"
    /\ op = "count_specific_ancestors!"
    /\ CountStep(count_specific_ancestors_macro_iter(
                     [node |-> node, count |-> count, done |-> FALSE],
                     args.typs, args.stops))

CountMacroNext == CountMacroCall \/ CountMacroIter

CountMacroSpec == CountMacroInit /\ [][CountMacroNext]_vars

-----------------------------------------------------------------------------
(* The whole layer: a call of any of the operations on any of the trees *)

Init ==
    \/ SearchInit
    \/ ActInit
    \/ SiblingInit
    \/ TraverseInit
    \/ HasAncestorsInit
    \/ CountInit
    \/ CountMacroInit

Next ==
    \/ SearchNext
    \/ ActNext
    \/ SiblingNext
    \/ TraverseNext
    \/ HasAncestorsNext
    \/ CountNext
    \/ CountMacroNext

Spec == Init /\ [][Next]_vars

-----------------------------------------------------------------------------
(* Reference notions the properties are stated with *)

\* The proper ancestors of n.
Ancestors(n) ==
    LET up[x \in Nodes] ==
            IF parent[x] = None THEN {} ELSE {parent[x]} \cup up[parent[x]]
    IN  up[n]

\* a is a proper ancestor of n.
IsAncestor(a, n) == a \in Ancestors(n)

\* The nodes of the subtree rooted at r, r included.
Subtree(r) == {n \in Nodes : n = r \/ IsAncestor(r, n)}

\* The elements of a set of nodes, in increasing (source) order.
InOrder(S) ==
    [i \in 1..Cardinality(S) |->
        CHOOSE x \in S : Cardinality({y \in S : y < x}) = i - 1]

\* The manual pre-order, left-to-right walk of the subtree rooted at r: the
\* node, then the walk of each child, children in source order.
PreOrder(r) ==
    LET walk[x \in Nodes] ==
            LET cs == InOrder({c \in Nodes : parent[c] = x})
                each[i \in 0..Len(cs)] ==
                    IF i = 0 THEN <<>> ELSE each[i - 1] \o walk[cs[i]]
            IN  <<x>> \o each[Len(cs)]
    IN  walk[r]

Filter(s, pred) == SelectSeq(s, LAMBDA n : kind[n] \in pred)

Range(s) == {s[i] : i \in DOMAIN s}

-----------------------------------------------------------------------------
(* C5 *)

AllOccurrencesDone == op = "all_occurrences" /\ pc = "done"

\* C5: when all_occurrences(pred) returns, its result is exactly the nodes
\* of the subtree rooted at the receiver that satisfy pred, each once, in
\* pre-order left-to-right order, the descendants of matches included.
C5_AllOccurrencesPreOrder ==
    AllOccurrencesDone =>
        /\ ret = Filter(PreOrder(self), args.pred)
        /\ Range(ret) = {n \in Subtree(self) : kind[n] \in args.pred}
        /\ Len(ret) = Cardinality(Range(ret))

\* A call returned a match, then a match below it, then a later sibling of
\* the first: the walk went into a matched node before its siblings.
C5_Witness ==
    /\ AllOccurrencesDone
    /\ \E i, j, k \in DOMAIN ret :
          /\ i < j /\ j < k
          /\ parent[ret[j]] = ret[i]
          /\ parent[ret[k]] = parent[ret[i]]
          /\ ret[k] < ret[j]

-----------------------------------------------------------------------------
(* C9 *)

\* C9: act_on_node terminates, and by then the visitor has been called
\* exactly once on every node of the subtree rooted at the receiver and on
\* no other node, in pre-order left-to-right order.
C9_ActOnNodeTerminates ==
    (op = "act_on_node") ~>
        /\ pc = "done"
        /\ stack = <<>>
        /\ visited = PreOrder(self)
        /\ Range(visited) = Subtree(self)
        /\ Len(visited) = Cardinality(Subtree(self))

\* A terminated call on a proper subtree with a branching node: the walk
\* skipped the nodes outside the subtree and went below an earlier child
\* before a later one.
C9_Witness ==
    /\ op = "act_on_node"
    /\ pc = "done"
    /\ self # 1
    /\ Len(visited) >= 3
    /\ Subtree(self) # Nodes
    /\ \E i \in DOMAIN visited : i > 1 /\ parent[visited[i]] = self

-----------------------------------------------------------------------------
(* C6 *)

-----------------------------------------------------------------------------
(* C7 *)

FirstOccurrenceDone == op = "first_occurrence" /\ pc = "done"

\* C7: first_occurrence(pred) returns the first element of what
\* all_occurrences(pred) returns for the same receiver when that is not
\* empty, and None exactly when it is empty.
C7_FirstIsHeadOfAll ==
    FirstOccurrenceDone =>
        LET all == all_occurrences(self, args.pred)
        IN  /\ all # <<>> => ret = Head(all)
            /\ all = <<>> <=> ret = None

\* first_occurrence returned a node below the receiver although a node with
\* a smaller number (a later sibling of one of its ancestors) matches too.
C7_Witness ==
    /\ FirstOccurrenceDone
    /\ ret # None
    /\ ret # self
    /\ \E m \in Subtree(self) :
          m < ret /\ kind[m] \in args.pred /\ ~IsAncestor(m, ret)

-----------------------------------------------------------------------------
(* C4 *)

\* The children of n, as a set.
ChildSet(n) == {c \in Nodes : parent[c] = n}

\* C4: has_sibling(kind) is decided by the children of the parent, not by
\* the node's own children: it is true when another child of the parent has
\* kind id `kind`, and false when the node has no parent or no child of the
\* parent has it.
C4_HasSiblingLooksAtParent ==
    (op = "has_sibling" /\ pc = "done") =>
        /\ (/\ parent[self] # None
            /\ \E c \in ChildSet(parent[self]) \ {self} : kind[c] = args.id)
           => ret
        /\ (\/ parent[self] = None
            \/ \A c \in ChildSet(parent[self]) : kind[c] # args.id)
           => ~ret

-----------------------------------------------------------------------------
(* C8 *)

\* The leftmost direct child of n whose kind id satisfies token, None when
\* there is none.
LeftmostMatch(n, token) ==
    LET ms == {c \in ChildSet(n) : kind[c] \in token}
    IN  IF ms = {} THEN None ELSE Min(ms)

\* The node reached from n by descending, for each predicate in order, into
\* the leftmost direct child satisfying it; None once a step finds none.
Descend(n, token_list) ==
    LET at[i \in 0..Len(token_list)] ==
            IF i = 0 THEN n
            ELSE IF at[i - 1] = None THEN None
            ELSE LeftmostMatch(at[i - 1], token_list[i])
    IN  at[Len(token_list)]

TraverseDone == op \in TraverseOps /\ pc = "done"

\* C8: both traverse_children return the node reached by descending, one
\* predicate after the other, into the leftmost direct child satisfying it
\* (the starting node for an empty list), and None when some step finds no
\* direct child: no deeper look, no backtracking.
C8_TraverseChildrenLeftmostPath ==
    TraverseDone => ret = Descend(self, args.token_list)

\* traverse_children returned None although the second child matching the
\* first predicate has a child matching the second one (backtracking would
\* have found it), the first predicate's leftmost match having none.
C8_Witness ==
    /\ TraverseDone
    /\ Len(args.token_list) = 2
    /\ ret = None
    /\ LeftmostMatch(self, args.token_list[1]) # None
    /\ \E c \in ChildSet(self) :
          /\ kind[c] \in args.token_list[1]
          /\ LeftmostMatch(c, args.token_list[2]) # None

-----------------------------------------------------------------------------
(* C1 *)

\* C1: Node::has_ancestors(typ, typs) is true only if the parent exists and
\* satisfies typ and the parent's parent exists and satisfies typs; with
\* the parent absent or failing typ the result is false.
C1_HasAncestorsFullChain ==
    (op = "Node::has_ancestors" /\ pc = "done") =>
        (ret => /\ parent[self] # None
                /\ kind[parent[self]] \in args.typ
                /\ parent[parent[self]] # None
                /\ kind[parent[parent[self]]] \in args.typs)

-----------------------------------------------------------------------------
(* C2, C3 *)

\* The proper ancestors of n strictly below its nearest ancestor in the
\* stop set; all of them when none is in the stop set.
BelowNearestStop(n, stop) ==
    {a \in Ancestors(n) :
        \A b \in Ancestors(n) \ Ancestors(a) : kind[b] \notin stop}

\* The ancestors of the receiver the walk has gone through: `node` and what
\* lies between it and the receiver.
Passed == Ancestors(self) \ Ancestors(node)

CountRunning == op = "Node::count_specific_ancestors" /\ pc # "call"

CountDone == op = "Node::count_specific_ancestors" /\ pc = "done"

\* C2: a walk whose first ancestor is in both the counted and the stop set
\* returns 0; no walk goes through an ancestor of the stop set or has
\* counted one, and a walk that ends below an ancestor ends at one of the
\* stop set, whether or not it is in the counted set too.
C2_StopPrecedence ==
    /\ (CountDone /\ parent[self] # None
            /\ kind[parent[self]] \in args.check \cap args.stop) => ret = 0
    /\ CountRunning =>
          /\ \A a \in Passed : kind[a] \notin args.stop
          /\ count <= Cardinality({a \in Passed : kind[a] \in args.check})
    /\ (CountDone /\ parent[node] # None) => kind[parent[node]] \in args.stop

\* The walk returned 0 at a parent that is in both sets and not else-if,
\* with a counted, not else-if ancestor above it.
C2_Witness ==
    /\ CountDone
    /\ parent[self] # None
    /\ kind[parent[self]] \in args.check \cap args.stop
    /\ ~is_else_if(parent[self])
    /\ ret = 0
    /\ \E a \in Ancestors(parent[self]) :
          kind[a] \in args.check /\ kind[a] \notin args.stop /\ ~is_else_if(a)

\* C3: Node::count_specific_ancestors returns the number of proper
\* ancestors strictly below the nearest ancestor of the stop set (all of
\* them when there is none) that are in the counted set and not else-if.
C3_CountExcludesElseIf ==
    CountDone =>
        ret = Cardinality({a \in BelowNearestStop(self, args.stop) :
                              kind[a] \in args.check /\ ~is_else_if(a)})

\* Three else-if ancestors of the counted set, then a counted ancestor that
\* is not else-if, then an ancestor of the stop set: the result is 1.
C3_Witness ==
    /\ CountDone
    /\ self = 6
    /\ \A a \in {5, 4, 3} : kind[a] \in args.check /\ is_else_if(a)
    /\ kind[2] \in args.check /\ ~is_else_if(2)
    /\ kind[1] \in args.stop
    /\ ret = 1

-----------------------------------------------------------------------------
(* C10 *)

\* C10: the count_specific_ancestors! macro returns what
\* Node::count_specific_ancestors returns for the same node, counted set,
\* stop set and else-if classification.
C10_MacroEqualsFunction ==
    (op = "count_specific_ancestors!" /\ pc = "done") =>
        ret = count_specific_ancestors(self, args.typs, args.stops)

=============================================================================
